---- MODULE Spec2Model ----
(***************************************************************************)
(* p2p/peer_behaviour.go: the PeerBehaviour reporting interface and its    *)
(* two implementations.  StoredPeerBehaviour keeps two maps of slices      *)
(* under one sync.RWMutex; SwitchPeerBehaviour forwards to the Switch.     *)
(*                                                                         *)
(* Slices are modelled as Go has them: a header (array, len, cap) over a   *)
(* backing array that lives in a heap, so that aliasing between a stored   *)
(* log and a returned slice is something a check can observe.              *)
(***************************************************************************)
EXTENDS Integers, Sequences, FiniteSets, TLC

\* ------------------------------------------------------------ vocabulary
ErrorPeerBehaviourUnknown == 0
ErrorPeerBehaviourBadMessage == 1
ErrorPeerBehaviourMessageOutofOrder == 2
GoodPeerBehaviourVote == 100
GoodPeerBehaviourBlockPart == 101

\* The reasons reactors report.  ErrorPeerBehaviourUnknown is the zero value
\* of the type: it is what make() fills a fresh array with.
ErrorReasons == {ErrorPeerBehaviourBadMessage, ErrorPeerBehaviourMessageOutofOrder}
GoodReasons == {GoodPeerBehaviourVote, GoodPeerBehaviourBlockPart}

\* ---------------------------------------------------------------- bounds
\* Report calls (Errored/Behaved) issued in one behaviour: by concurrent
\* goroutines, and by a single goroutine.
MaxReports == 2
MaxSeqReports == 3
\* Appends a caller makes to a slice a getter gave it stop at this length.
MaxHeldLen == 3
\* Calls made on the SwitchPeerBehaviour in one behaviour.
MaxLiveCalls == 3
\* Report calls and getter calls issued in one behaviour in which every
\* goroutine issues finitely many calls.
MaxFinReports == 2
MaxGets == 2

Peers == {"p1", "p2"}
Threads == {"t1", "t2"}

VARIABLES
    eb,        \* StoredPeerBehaviour.eb : map[ID][]ErrorPeerBehaviour (slice headers)
    gb,        \* StoredPeerBehaviour.gb : map[ID][]GoodPeerBehaviour  (slice headers)
    heap,      \* backing arrays of every live slice: array id -> contents (length = cap)
    mtx,       \* StoredPeerBehaviour.mtx : sync.RWMutex
    pc,        \* where each goroutine stands
    arg,       \* the call each goroutine is in (or made last): op, peerID, reason
    tmp,       \* a report call's local: the slice it is about to store
    ret,       \* the slice a getter returned to its caller
    calls,     \* history: per (op, peer), the reasons reported, in invocation order
    returned,  \* history: per (op, peer), the reasons of the calls that returned, in order
    window,    \* history: every value the read log took since the getter was invoked
    snap,      \* history: how many reports on the read log had returned at the getter's invocation
    ngets,     \* history: getter calls made, where goroutines issue finitely many
    swPeers,   \* Switch: the peer set, sw.Peers()
    swCalls,   \* Switch: the StopPeerForError / MarkPeerAsGood calls it received, in order
    peer,      \* SwitchPeerBehaviour: a call's local, peer := spb.sw.Peers().Get(peerID)
    err,       \* SwitchPeerBehaviour: the error a call returned
    nlive,     \* history: calls made on the SwitchPeerBehaviour
    lookedUp,  \* history: whether the peer set held a call's peer at its lookup, and at its return
    swReturns  \* history: how many calls on the SwitchPeerBehaviour returned, of each kind

stored == <<eb, gb, heap, mtx, tmp, ret, calls, returned, window, snap, ngets>>
live == <<swPeers, swCalls, peer, err, nlive, lookedUp, swReturns>>
vars == <<eb, gb, heap, mtx, pc, arg, tmp, ret, calls, returned, window, snap, ngets,
          swPeers, swCalls, peer, err, nlive, lookedUp, swReturns>>

\* ------------------------------------------------------------ Go slices
\* An array's address names who allocated it (a log's writer, or a goroutine
\* for its own use) and tells apart the arrays it has live at once.  A nil
\* slice points nowhere; a non-nil slice of length 0 points at the runtime's
\* zero-size base, which holds nothing.
NilSlice == [arr |-> <<<<"nil", "nil">>, 0>>, len |-> 0, cap |-> 0]
EmptySlice == [arr |-> <<<<"zerobase", "zerobase">>, 0>>, len |-> 0, cap |-> 0]

\* The elements a slice header shows of its backing array.
Elems(h, s) == IF s.len = 0 THEN <<>> ELSE SubSeq(h[s.arr], 1, s.len)

Zeros(n) == [i \in 1..n |-> 0]

\* A fresh address for an allocation by `site`: the first one not in use.
NewArr(h, site) ==
    LET i == CHOOSE i \in 1..(Cardinality(DOMAIN h) + 1) :
                 /\ <<site, i>> \notin DOMAIN h
                 /\ \A j \in 1..(i - 1) : <<site, j>> \in DOMAIN h
    IN  <<site, i>>

\* The capacities append may give a grown array that must hold n elements.
\* The language asks only for "a new, sufficiently large underlying array":
\* an exact fit, or room to spare (so that a later append writes in place).
GrowCaps(n) == {n, n + 1}

\* []T{v}: a one-element literal.
Literal(h, v, site) ==
    LET a == NewArr(h, site)
    IN  [h |-> h @@ (a :> <<v>>), s |-> [arr |-> a, len |-> 1, cap |-> 1]]

\* append(s, v), with c the capacity picked if the array must grow.
GoAppend(h, s, v, c, site) ==
    IF s.len < s.cap
    THEN [h |-> [h EXCEPT ![s.arr][s.len + 1] = v],
          s |-> [s EXCEPT !.len = s.len + 1]]
    ELSE LET a == NewArr(h, site)
         IN  [h |-> h @@ (a :> (Elems(h, s) \o <<v>> \o Zeros(c - s.len - 1))),
              s |-> [arr |-> a, len |-> s.len + 1, cap |-> c]]

\* make([]T, n): n zeroed elements.
GoMake(h, n, site) ==
    IF n = 0 THEN [h |-> h, s |-> EmptySlice]
    ELSE LET a == NewArr(h, site)
         IN  [h |-> h @@ (a :> Zeros(n)), s |-> [arr |-> a, len |-> n, cap |-> n]]

Min(a, b) == IF a < b THEN a ELSE b

\* copy(dst, src): min(len(dst), len(src)) elements.
GoCopy(h, dst, src) ==
    LET n == Min(dst.len, src.len)
        from == Elems(h, src)
    IN  IF n = 0 THEN h
        ELSE [h EXCEPT ![dst.arr] =
                 [i \in 1..Len(h[dst.arr]) |-> IF i <= n THEN from[i] ELSE h[dst.arr][i]]]

\* The arrays still referenced from the maps or a goroutine's locals; the
\* garbage collector frees the rest.
Live(e, g, tm, rt) ==
    {e[p].arr : p \in DOMAIN e} \cup {g[p].arr : p \in DOMAIN g}
        \cup {tm[t].arr : t \in Threads} \cup {rt[t].arr : t \in Threads}

Collect(h, e, g, tm, rt) ==
    LET keep == DOMAIN h \cap Live(e, g, tm, rt)
    IN  [a \in keep |-> h[a]]

\* ------------------------------------------------------------ sync.RWMutex
\* w: the goroutine that holds the lock for writing; r: active readers.
NoThread == "none"

\* A bug: Lock is granted while readers are inside.
CanLockIgnoresReaders(m) == m.w = NoThread

\* Lock returns when no writer and no reader holds the lock.
CanLock(m) == m.w = NoThread /\ m.r = 0
\* RLock returns when no writer holds the lock.
CanRLock(m) == m.w = NoThread

\* ------------------------------------------------------------ goroutines
ReportOps == {"Errored", "Behaved"}
GetOps == {"GetErrorBehaviours", "GetGoodBehaviours"}

NoArg == [op |-> "none", peer |-> "none", reason |-> 0]

\* The log a call is about: getters and reports of one kind share a map.
IsErr(op) == op \in {"Errored", "GetErrorBehaviours"}
ReportOf(op) == IF IsErr(op) THEN "Errored" ELSE "Behaved"
MapOf(op, e, g) == IF IsErr(op) THEN e ELSE g

InWrite(t) == pc[t] \in {"Append", "Assign", "Unlock"}
InRead(t) == pc[t] \in {"Read", "RUnlock"}

\* What the stored log of (op's kind, p) reads as: absent key = empty.
Log(h, m, p) == IF p \in DOMAIN m THEN Elems(h, m[p]) ELSE <<>>

\* A nil Peer; a nil error and errors.New("Peer not found").
NilPeer == "nil"
NoError == "nil"
ErrPeerNotFound == "Peer not found"

\* The kinds of return of a call on the SwitchPeerBehaviour: its operation,
\* its result, and whether the peer set held its peer at the lookup.
ReturnKinds ==
    [op : {"SwitchErrored", "SwitchBehaved"}, err : {NoError, ErrPeerNotFound},
     found : BOOLEAN]

NotLookedUp == [atGet |-> FALSE, atReturn |-> FALSE]

\* map[ID][]T{} and the empty heap.
NoEntries == [p \in {} |-> NilSlice]
NoArrays == [a \in {} |-> <<>>]

\* A bug: the store builds the map anew, with the one key.
MapStoreFreshMap(m, p, s) == [q \in {p} |-> s]

\* m[p] = s
MapStore(m, p, s) == [q \in DOMAIN m \cup {p} |-> IF q = p THEN s ELSE m[q]]

\* Report calls issued so far.
RECURSIVE SumLen(_, _)
SumLen(f, S) ==
    IF S = {} THEN 0
    ELSE LET k == CHOOSE x \in S : TRUE IN Len(f[k]) + SumLen(f, S \ {k})

NumCalls == SumLen(calls, ReportOps \X Peers)

Init ==
    /\ eb = NoEntries
    /\ gb = NoEntries
    /\ heap = NoArrays
    /\ mtx = [w |-> NoThread, r |-> 0]
    /\ pc = [t \in Threads |-> "idle"]
    /\ arg = [t \in Threads |-> NoArg]
    /\ tmp = [t \in Threads |-> NilSlice]
    /\ ret = [t \in Threads |-> NilSlice]
    /\ calls = [k \in ReportOps \X Peers |-> <<>>]
    /\ returned = [k \in ReportOps \X Peers |-> <<>>]
    /\ window = [t \in Threads |-> {}]
    /\ snap = [t \in Threads |-> 0]
    /\ swPeers = {}
    /\ swCalls = <<>>
    /\ peer = [t \in Threads |-> NilPeer]
    /\ err = [t \in Threads |-> NoError]
    /\ nlive = 0
    /\ ngets = 0
    /\ lookedUp = [t \in Threads |-> NotLookedUp]
    /\ swReturns = [k \in ReturnKinds |-> 0]

\* ------------------------------------------- StoredPeerBehaviour: reports
\* A reactor calls Errored(peerID, reason) or Behaved(peerID, reason), with
\* a reason out of E or G.
ReportCallOf(t, max, E, G) ==
    /\ pc[t] = "idle"
    /\ NumCalls < max
    /\ \E op \in ReportOps, p \in Peers :
         \E r \in (IF op = "Errored" THEN E ELSE G) :
            /\ arg' = [arg EXCEPT ![t] = [op |-> op, peer |-> p, reason |-> r]]
            /\ calls' = [calls EXCEPT ![<<op, p>>] = Append(@, r)]
    /\ pc' = [pc EXCEPT ![t] = "Lock"]
    /\ UNCHANGED <<eb, gb, heap, mtx, tmp, ret, returned, window, snap, ngets>>
    /\ UNCHANGED live

ReportCall(t, max) == ReportCallOf(t, max, ErrorReasons, GoodReasons)

CallReport(t) == ReportCall(t, MaxReports)

\* A bug: the report goes on without holding the lock.
LockNoWait(t) ==
    /\ pc[t] = "Lock"
    /\ mtx' = [mtx EXCEPT !.w = t]
    /\ pc' = [pc EXCEPT ![t] = "Append"]
    /\ UNCHANGED <<eb, gb, heap, arg, tmp, ret, calls, returned, window, snap, ngets>>
    /\ UNCHANGED live

\* spb.mtx.Lock()
Lock(t) ==
    /\ pc[t] = "Lock"
    /\ CanLock(mtx)
    /\ mtx' = [mtx EXCEPT !.w = t]
    /\ pc' = [pc EXCEPT ![t] = "Append"]
    /\ UNCHANGED <<eb, gb, heap, arg, tmp, ret, calls, returned, window, snap, ngets>>
    /\ UNCHANGED live

\* A bug: both branches store the one-element literal.
NewLogAlwaysLiteral(h, m, p, r, c, site) == Literal(h, r, site)

\* The value a report stores: []T{reason} for a new key, append(m[peerID],
\* reason) for a known one (c: the capacity if append must grow the array).
NewLog(h, m, p, r, c, site) ==
    IF p \notin DOMAIN m THEN Literal(h, r, site) ELSE GoAppend(h, m[p], r, c, site)

CapChoices(m, p) ==
    IF p \in DOMAIN m /\ m[p].len >= m[p].cap THEN GrowCaps(m[p].len + 1) ELSE {0}

\* A bug: the report checks that the peer is known, as the
\* SwitchPeerBehaviour does, and fails for a key it has not seen.
ReportAppendChecksPeer(t) ==
    /\ pc[t] = "Append"
    /\ LET m == MapOf(arg[t].op, eb, gb)
       IN  IF arg[t].peer \notin DOMAIN m
           THEN /\ err' = [err EXCEPT ![t] = ErrPeerNotFound]
                /\ pc' = [pc EXCEPT ![t] = "Unlock"]
                /\ UNCHANGED <<tmp, heap>>
           ELSE /\ \E c \in CapChoices(m, arg[t].peer) :
                     LET n == NewLog(heap, m, arg[t].peer, arg[t].reason, c,
                                            <<arg[t].op, arg[t].peer>>)
                     IN  /\ tmp' = [tmp EXCEPT ![t] = n.s]
                         /\ heap' = n.h
                /\ pc' = [pc EXCEPT ![t] = "Assign"]
                /\ UNCHANGED err
    /\ UNCHANGED <<eb, gb, mtx, arg, ret, calls, returned, window, snap, ngets>>
    /\ UNCHANGED <<swPeers, swCalls, peer, nlive, lookedUp, swReturns>>

\* Errored/Behaved: the lookup and the right-hand side of the assignment.
ReportAppend(t) ==
    /\ pc[t] = "Append"
    /\ LET m == MapOf(arg[t].op, eb, gb)
       IN  \E c \in CapChoices(m, arg[t].peer) :
             LET n == NewLog(heap, m, arg[t].peer, arg[t].reason, c,
                                            <<arg[t].op, arg[t].peer>>)
             IN  /\ tmp' = [tmp EXCEPT ![t] = n.s]
                 /\ heap' = n.h
    /\ pc' = [pc EXCEPT ![t] = "Assign"]
    /\ UNCHANGED <<eb, gb, mtx, arg, ret, calls, returned, window, snap, ngets>>
    /\ UNCHANGED live

\* History: a getter in flight on (kind, p) sees the log take a new value.
Observe(w, kind, p, v) ==
    [u \in Threads |->
        IF /\ pc[u] \in {"RLock", "Read", "RUnlock"}
           /\ IsErr(arg[u].op) = kind
           /\ arg[u].peer = p
        THEN w[u] \cup {v} ELSE w[u]]

\* A bug: for a known key the grown slice is kept in a local and never
\* stored back into the map.
ErroredAssignNotStored(t) ==
    /\ pc[t] = "Assign"
    /\ arg[t].op = "Errored"
    /\ eb' = IF arg[t].peer \in DOMAIN eb THEN eb ELSE MapStore(eb, arg[t].peer, tmp[t])
    /\ tmp' = [tmp EXCEPT ![t] = NilSlice]
    /\ heap' = Collect(heap, eb', gb, tmp', ret)
    /\ window' = Observe(window, TRUE, arg[t].peer, Log(heap', eb', arg[t].peer))
    /\ pc' = [pc EXCEPT ![t] = "Unlock"]
    /\ UNCHANGED <<gb, mtx, arg, ret, calls, returned, snap, ngets>>
    /\ UNCHANGED live

\* Errored: spb.eb[peerID] = ...
ErroredAssign(t) ==
    /\ pc[t] = "Assign"
    /\ arg[t].op = "Errored"
    /\ eb' = MapStore(eb, arg[t].peer, tmp[t])
    /\ tmp' = [tmp EXCEPT ![t] = NilSlice]
    /\ heap' = Collect(heap, eb', gb, tmp', ret)
    /\ window' = Observe(window, TRUE, arg[t].peer, Elems(heap, tmp[t]))
    /\ pc' = [pc EXCEPT ![t] = "Unlock"]
    /\ UNCHANGED <<gb, mtx, arg, ret, calls, returned, snap, ngets>>
    /\ UNCHANGED live

\* A bug: Behaved stores its slice into the error map.
BehavedAssignIntoEb(t) ==
    /\ pc[t] = "Assign"
    /\ arg[t].op = "Behaved"
    /\ eb' = MapStore(eb, arg[t].peer, tmp[t])
    /\ tmp' = [tmp EXCEPT ![t] = NilSlice]
    /\ heap' = Collect(heap, eb', gb, tmp', ret)
    /\ window' = Observe(window, FALSE, arg[t].peer, Log(heap', gb, arg[t].peer))
    /\ pc' = [pc EXCEPT ![t] = "Unlock"]
    /\ UNCHANGED <<gb, mtx, arg, ret, calls, returned, snap, ngets>>
    /\ UNCHANGED live

\* Behaved: spb.gb[peerID] = ...
BehavedAssign(t) ==
    /\ pc[t] = "Assign"
    /\ arg[t].op = "Behaved"
    /\ gb' = MapStore(gb, arg[t].peer, tmp[t])
    /\ tmp' = [tmp EXCEPT ![t] = NilSlice]
    /\ heap' = Collect(heap, eb, gb', tmp', ret)
    /\ window' = Observe(window, FALSE, arg[t].peer, Elems(heap, tmp[t]))
    /\ pc' = [pc EXCEPT ![t] = "Unlock"]
    /\ UNCHANGED <<eb, mtx, arg, ret, calls, returned, snap, ngets>>
    /\ UNCHANGED live

\* defer spb.mtx.Unlock(), and the call returns.
Unlock(t) ==
    /\ pc[t] = "Unlock"
    /\ mtx' = [mtx EXCEPT !.w = NoThread]
    /\ returned' = [returned EXCEPT ![<<arg[t].op, arg[t].peer>>] = Append(@, arg[t].reason)]
    /\ arg' = [arg EXCEPT ![t] = NoArg]
    /\ pc' = [pc EXCEPT ![t] = "idle"]
    /\ UNCHANGED <<eb, gb, heap, tmp, ret, calls, window, snap, ngets>>
    /\ UNCHANGED live

\* ------------------------------------------- StoredPeerBehaviour: getters
\* Test code calls GetErrorBehaviours(peerID) or GetGoodBehaviours(peerID).
GetCall(t) ==
    /\ pc[t] = "idle"
    /\ \E op \in GetOps, p \in Peers :
         /\ arg' = [arg EXCEPT ![t] = [op |-> op, peer |-> p, reason |-> 0]]
         /\ window' = [window EXCEPT ![t] = {Log(heap, MapOf(op, eb, gb), p)}]
         /\ snap' = [snap EXCEPT ![t] = Len(returned[<<ReportOf(op), p>>])]
    /\ pc' = [pc EXCEPT ![t] = "RLock"]
    /\ UNCHANGED <<eb, gb, heap, mtx, tmp, ret, calls, returned>>
    /\ UNCHANGED live

CallGet(t) == GetCall(t) /\ UNCHANGED ngets

\* One of the finitely many getter calls a goroutine issues.
FinCallGet(t) ==
    /\ ngets < MaxGets
    /\ GetCall(t)
    /\ ngets' = ngets + 1

\* One of the finitely many report calls a goroutine issues.  No statement
\* of a report branches on the reason, so one reason of each kind stands for
\* all.
FinCallReport(t) ==
    ReportCallOf(t, MaxFinReports, {ErrorPeerBehaviourBadMessage}, {GoodPeerBehaviourVote})

\* A bug: the getter reads without waiting for the writer to leave.
RLockNoWait(t) ==
    /\ pc[t] = "RLock"
    /\ mtx' = [mtx EXCEPT !.r = mtx.r + 1]
    /\ pc' = [pc EXCEPT ![t] = "Read"]
    /\ UNCHANGED <<eb, gb, heap, arg, tmp, ret, calls, returned, window, snap, ngets>>
    /\ UNCHANGED live

\* spb.mtx.RLock()
RLock(t) ==
    /\ pc[t] = "RLock"
    /\ CanRLock(mtx)
    /\ mtx' = [mtx EXCEPT !.r = mtx.r + 1]
    /\ pc' = [pc EXCEPT ![t] = "Read"]
    /\ UNCHANGED <<eb, gb, heap, arg, tmp, ret, calls, returned, window, snap, ngets>>
    /\ UNCHANGED live

\* A bug: the getter returns the stored slice itself.
StoredCopyAlias(h, items, site) == [h |-> h, s |-> items]

\* result := make([]T, len(items)); copy(result, items)
StoredCopy(h, items, site) ==
    LET mk == GoMake(h, items.len, site)
    IN  [h |-> GoCopy(mk.h, mk.s, items), s |-> mk.s]

\* A bug: the getter declares result, fills it only for a known key, and
\* returns nil for an absent one.
GetResultNilWhenAbsent(h, m, p, site) ==
    IF p \in DOMAIN m THEN StoredCopy(h, m[p], site) ELSE [h |-> h, s |-> NilSlice]

\* What a getter's body yields: a copy of the stored slice, or []T{} for an
\* absent key.
GetResult(h, m, p, site) ==
    IF p \in DOMAIN m THEN StoredCopy(h, m[p], site) ELSE [h |-> h, s |-> EmptySlice]

\* What an unsynchronised read of a map under write may yield: any log.
RacyLogs ==
    LET V == ErrorReasons \cup GoodReasons \cup {0}
    IN  {<<>>} \cup {<<a>> : a \in V} \cup {<<a, b>> : a \in V, b \in V}

\* The body of GetErrorBehaviours / GetGoodBehaviours.  A read while a
\* writer is inside its critical section is a data race on the map.
Read(t) ==
    /\ pc[t] = "Read"
    /\ IF \E u \in Threads \ {t} : InWrite(u)
       THEN \E q \in RacyLogs :
              LET a == NewArr(heap, <<"goroutine", t>>)
              IN  /\ heap' = heap @@ (a :> q)
                  /\ tmp' = [tmp EXCEPT ![t] = [arr |-> a, len |-> Len(q), cap |-> Len(q)]]
       ELSE LET g == GetResult(heap, MapOf(arg[t].op, eb, gb), arg[t].peer,
                               <<"goroutine", t>>)
            IN  /\ heap' = g.h
                /\ tmp' = [tmp EXCEPT ![t] = g.s]
    /\ pc' = [pc EXCEPT ![t] = "RUnlock"]
    /\ UNCHANGED <<eb, gb, mtx, arg, ret, calls, returned, window, snap, ngets>>
    /\ UNCHANGED live

\* A bug: the getter returns without releasing its read lock.
RUnlockNotReleased(t) ==
    /\ pc[t] = "RUnlock"
    /\ ret' = [ret EXCEPT ![t] = tmp[t]]
    /\ tmp' = [tmp EXCEPT ![t] = NilSlice]
    /\ pc' = [pc EXCEPT ![t] = "Returned"]
    /\ UNCHANGED <<eb, gb, heap, mtx, arg, calls, returned, window, snap, ngets>>
    /\ UNCHANGED live

\* defer spb.mtx.RUnlock(), and the getter returns result.
RUnlock(t) ==
    /\ pc[t] = "RUnlock"
    /\ mtx' = [mtx EXCEPT !.r = mtx.r - 1]
    /\ ret' = [ret EXCEPT ![t] = tmp[t]]
    /\ tmp' = [tmp EXCEPT ![t] = NilSlice]
    /\ pc' = [pc EXCEPT ![t] = "Returned"]
    /\ UNCHANGED <<eb, gb, heap, arg, calls, returned, window, snap, ngets>>
    /\ UNCHANGED live

\* The caller is done with the slice it was given.
Release(t) ==
    /\ pc[t] = "Returned"
    /\ ret' = [ret EXCEPT ![t] = NilSlice]
    /\ heap' = Collect(heap, eb, gb, tmp, ret')
    /\ arg' = [arg EXCEPT ![t] = NoArg]
    /\ window' = [window EXCEPT ![t] = {}]
    /\ snap' = [snap EXCEPT ![t] = 0]
    /\ pc' = [pc EXCEPT ![t] = "idle"]
    /\ UNCHANGED <<eb, gb, mtx, tmp, calls, returned, ngets>>
    /\ UNCHANGED live

\* ------------------------------------------- the caller of a getter
\* What the caller writes into a slice: the zero value of the element type,
\* which no report stores, so that a write into a stored log would show.
ValuesOf(op) == {0}

\* The caller writes an element of the slice it was given.
MutateOverwrite(t) ==
    /\ pc[t] = "Returned"
    /\ \E i \in 1..ret[t].len, v \in ValuesOf(arg[t].op) :
         heap' = [heap EXCEPT ![ret[t].arr][i] = v]
    /\ UNCHANGED <<eb, gb, mtx, pc, arg, tmp, ret, calls, returned, window, snap, ngets>>
    /\ UNCHANGED live

\* The caller appends to the slice it was given.
MutateAppend(t) ==
    /\ pc[t] = "Returned"
    /\ ret[t].len < MaxHeldLen
    /\ \E v \in ValuesOf(arg[t].op), c \in GrowCaps(ret[t].len + 1) :
         LET n == GoAppend(heap, ret[t], v, c, <<"goroutine", t>>)
         IN  /\ ret' = [ret EXCEPT ![t] = n.s]
             /\ heap' = Collect(n.h, eb, gb, tmp, ret')
    /\ UNCHANGED <<eb, gb, mtx, pc, arg, tmp, calls, returned, window, snap, ngets>>
    /\ UNCHANGED live

\* The caller reslices the slice it was given: s = s[:k].
MutateTruncate(t) ==
    /\ pc[t] = "Returned"
    /\ \E k \in 0..(ret[t].len - 1) :
         ret' = [ret EXCEPT ![t] = [@ EXCEPT !.len = k]]
    /\ UNCHANGED <<eb, gb, heap, mtx, pc, arg, tmp, calls, returned, window, snap, ngets>>
    /\ UNCHANGED live

\* ------------------------------------------- the Switch
\* sw.StopPeerForError(peer, reason): the stop request is issued; the peer
\* leaves the peer set when the Switch gets to it (RemovePeer).
StopPeerForError(c, p, reason) ==
    Append(c, [fn |-> "StopPeerForError", peer |-> p, reason |-> reason])

\* sw.MarkPeerAsGood(peer)
MarkPeerAsGood(c, p) ==
    Append(c, [fn |-> "MarkPeerAsGood", peer |-> p, reason |-> 0])

\* sw.Peers().Get(peerID): the peer, or nil.
PeersGet(ps, id) == IF id \in ps THEN id ELSE NilPeer

\* A peer connects.
AddPeer(p) ==
    /\ p \notin swPeers
    /\ swPeers' = swPeers \cup {p}
    /\ UNCHANGED <<swCalls, peer, err, nlive, lookedUp, swReturns, pc, arg>>
    /\ UNCHANGED stored

\* A peer's connection ends: it went away, or the Switch stopped it.
RemovePeer(p) ==
    /\ p \in swPeers
    /\ swPeers' = swPeers \ {p}
    /\ UNCHANGED <<swCalls, peer, err, nlive, lookedUp, swReturns, pc, arg>>
    /\ UNCHANGED stored

\* ------------------------------------------- SwitchPeerBehaviour
LiveOps == {"SwitchErrored", "SwitchBehaved"}

\* History: goroutine t's call returns e, having found or not found its
\* peer in the peer set at the lookup.
Returns(h, t, e) ==
    [h EXCEPT ![[op |-> arg[t].op, err |-> e, found |-> lookedUp[t].atGet]] = @ + 1]

\* History: whether the peer set holds the peer of t's call as it returns.
AtReturn(l, t) == [l EXCEPT ![t].atReturn = arg[t].peer \in swPeers]

\* A reactor calls Errored(peerID, reason) or Behaved(peerID, reason).
SwitchCall(t) ==
    /\ pc[t] = "idle"
    /\ nlive < MaxLiveCalls
    /\ \E op \in LiveOps, p \in Peers :
         \E r \in (IF op = "SwitchErrored" THEN ErrorReasons ELSE GoodReasons) :
            arg' = [arg EXCEPT ![t] = [op |-> op, peer |-> p, reason |-> r]]
    /\ nlive' = nlive + 1
    /\ pc' = [pc EXCEPT ![t] = "Get"]
    /\ UNCHANGED <<swPeers, swCalls, peer, err, lookedUp, swReturns>>
    /\ UNCHANGED stored

\* peer := spb.sw.Peers().Get(peerID)
SwitchGet(t) ==
    /\ pc[t] = "Get"
    /\ peer' = [peer EXCEPT ![t] = PeersGet(swPeers, arg[t].peer)]
    /\ lookedUp' = [lookedUp EXCEPT ![t].atGet = arg[t].peer \in swPeers]
    /\ pc' = [pc EXCEPT ![t] = "Act"]
    /\ UNCHANGED <<swPeers, swCalls, err, nlive, swReturns, arg>>
    /\ UNCHANGED stored

\* A bug: Errored remembers the peers it asked the Switch to stop and does
\* not ask twice.
SwitchErroredActOncePerPeer(t) ==
    /\ pc[t] = "Act"
    /\ arg[t].op = "SwitchErrored"
    /\ IF peer[t] = NilPeer
       THEN /\ err' = [err EXCEPT ![t] = ErrPeerNotFound]
            /\ UNCHANGED swCalls
       ELSE /\ swCalls' = IF \E i \in 1..Len(swCalls) :
                                 /\ swCalls[i].fn = "StopPeerForError"
                                 /\ swCalls[i].peer = peer[t]
                          THEN swCalls
                          ELSE StopPeerForError(swCalls, peer[t], arg[t].reason)
            /\ err' = [err EXCEPT ![t] = NoError]
    /\ swReturns' = Returns(swReturns, t, err'[t])
    /\ lookedUp' = AtReturn(lookedUp, t)
    /\ pc' = [pc EXCEPT ![t] = "SwReturned"]
    /\ UNCHANGED <<swPeers, peer, nlive, arg>>
    /\ UNCHANGED stored

\* A bug: Errored looks again before it acts, and for a peer that has gone
\* since the lookup returns nil without telling the Switch.
SwitchErroredActSkipsGone(t) ==
    /\ pc[t] = "Act"
    /\ arg[t].op = "SwitchErrored"
    /\ IF peer[t] = NilPeer
       THEN /\ err' = [err EXCEPT ![t] = ErrPeerNotFound]
            /\ UNCHANGED swCalls
       ELSE /\ swCalls' = IF arg[t].peer \in swPeers
                          THEN StopPeerForError(swCalls, peer[t], arg[t].reason)
                          ELSE swCalls
            /\ err' = [err EXCEPT ![t] = NoError]
    /\ swReturns' = Returns(swReturns, t, err'[t])
    /\ lookedUp' = AtReturn(lookedUp, t)
    /\ pc' = [pc EXCEPT ![t] = "SwReturned"]
    /\ UNCHANGED <<swPeers, peer, nlive, arg>>
    /\ UNCHANGED stored

\* A bug: the nil check does not return, and the Switch is told to stop a
\* peer that was not found.
SwitchErroredActNoReturn(t) ==
    /\ pc[t] = "Act"
    /\ arg[t].op = "SwitchErrored"
    /\ swCalls' = StopPeerForError(swCalls, peer[t], arg[t].reason)
    /\ err' = [err EXCEPT ![t] = IF peer[t] = NilPeer THEN ErrPeerNotFound ELSE NoError]
    /\ swReturns' = Returns(swReturns, t, err'[t])
    /\ lookedUp' = AtReturn(lookedUp, t)
    /\ pc' = [pc EXCEPT ![t] = "SwReturned"]
    /\ UNCHANGED <<swPeers, peer, nlive, arg>>
    /\ UNCHANGED stored

\* A bug: the reported reason is not the cause handed to the Switch.
SwitchErroredActWrongCause(t) ==
    /\ pc[t] = "Act"
    /\ arg[t].op = "SwitchErrored"
    /\ IF peer[t] = NilPeer
       THEN /\ err' = [err EXCEPT ![t] = ErrPeerNotFound]
            /\ UNCHANGED swCalls
       ELSE /\ swCalls' = StopPeerForError(swCalls, peer[t], ErrorPeerBehaviourUnknown)
            /\ err' = [err EXCEPT ![t] = NoError]
    /\ swReturns' = Returns(swReturns, t, err'[t])
    /\ lookedUp' = AtReturn(lookedUp, t)
    /\ pc' = [pc EXCEPT ![t] = "SwReturned"]
    /\ UNCHANGED <<swPeers, peer, nlive, arg>>
    /\ UNCHANGED stored

\* Errored: if peer == nil { return errors.New("Peer not found") };
\* spb.sw.StopPeerForError(peer, reason); return nil
SwitchErroredAct(t) ==
    /\ pc[t] = "Act"
    /\ arg[t].op = "SwitchErrored"
    /\ IF peer[t] = NilPeer
       THEN /\ err' = [err EXCEPT ![t] = ErrPeerNotFound]
            /\ UNCHANGED swCalls
       ELSE /\ swCalls' = StopPeerForError(swCalls, peer[t], arg[t].reason)
            /\ err' = [err EXCEPT ![t] = NoError]
    /\ swReturns' = Returns(swReturns, t, err'[t])
    /\ lookedUp' = AtReturn(lookedUp, t)
    /\ pc' = [pc EXCEPT ![t] = "SwReturned"]
    /\ UNCHANGED <<swPeers, peer, nlive, arg>>
    /\ UNCHANGED stored

\* A bug: Behaved branches on the reason and promotes the peer for a vote
\* only.
SwitchBehavedActVoteOnly(t) ==
    /\ pc[t] = "Act"
    /\ arg[t].op = "SwitchBehaved"
    /\ IF peer[t] = NilPeer
       THEN /\ err' = [err EXCEPT ![t] = ErrPeerNotFound]
            /\ UNCHANGED swCalls
       ELSE /\ swCalls' = IF arg[t].reason = GoodPeerBehaviourVote
                          THEN MarkPeerAsGood(swCalls, peer[t])
                          ELSE swCalls
            /\ err' = [err EXCEPT ![t] = NoError]
    /\ swReturns' = Returns(swReturns, t, err'[t])
    /\ lookedUp' = AtReturn(lookedUp, t)
    /\ pc' = [pc EXCEPT ![t] = "SwReturned"]
    /\ UNCHANGED <<swPeers, peer, nlive, arg>>
    /\ UNCHANGED stored

\* A bug: Behaved carries Errored's body and stops the peer.
SwitchBehavedActStops(t) ==
    /\ pc[t] = "Act"
    /\ arg[t].op = "SwitchBehaved"
    /\ IF peer[t] = NilPeer
       THEN /\ err' = [err EXCEPT ![t] = ErrPeerNotFound]
            /\ UNCHANGED swCalls
       ELSE /\ swCalls' = StopPeerForError(swCalls, peer[t], arg[t].reason)
            /\ err' = [err EXCEPT ![t] = NoError]
    /\ swReturns' = Returns(swReturns, t, err'[t])
    /\ lookedUp' = AtReturn(lookedUp, t)
    /\ pc' = [pc EXCEPT ![t] = "SwReturned"]
    /\ UNCHANGED <<swPeers, peer, nlive, arg>>
    /\ UNCHANGED stored

\* Behaved: if peer == nil { return errors.New("Peer not found") };
\* spb.sw.MarkPeerAsGood(peer); return nil
SwitchBehavedAct(t) ==
    /\ pc[t] = "Act"
    /\ arg[t].op = "SwitchBehaved"
    /\ IF peer[t] = NilPeer
       THEN /\ err' = [err EXCEPT ![t] = ErrPeerNotFound]
            /\ UNCHANGED swCalls
       ELSE /\ swCalls' = MarkPeerAsGood(swCalls, peer[t])
            /\ err' = [err EXCEPT ![t] = NoError]
    /\ swReturns' = Returns(swReturns, t, err'[t])
    /\ lookedUp' = AtReturn(lookedUp, t)
    /\ pc' = [pc EXCEPT ![t] = "SwReturned"]
    /\ UNCHANGED <<swPeers, peer, nlive, arg>>
    /\ UNCHANGED stored

\* The reactor has looked at the result and goes on.
SwitchDone(t) ==
    /\ pc[t] = "SwReturned"
    /\ arg' = [arg EXCEPT ![t] = NoArg]
    /\ peer' = [peer EXCEPT ![t] = NilPeer]
    /\ err' = [err EXCEPT ![t] = NoError]
    /\ lookedUp' = [lookedUp EXCEPT ![t] = NotLookedUp]
    /\ pc' = [pc EXCEPT ![t] = "idle"]
    /\ UNCHANGED <<swPeers, swCalls, nlive, swReturns>>
    /\ UNCHANGED stored

\* ------------------------------------------- specifications
\* Goroutines sharing one StoredPeerBehaviour.
Next ==
    \E t \in Threads :
        \/ CallReport(t)
        \/ Lock(t)
        \/ ReportAppend(t)
        \/ ErroredAssign(t)
        \/ BehavedAssign(t)
        \/ Unlock(t)
        \/ CallGet(t)
        \/ RLock(t)
        \/ Read(t)
        \/ RUnlock(t)
        \/ Release(t)

Spec == Init /\ [][Next]_vars

\* One goroutine drives a StoredPeerBehaviour and changes the slices the
\* getters give it.
SeqThread == "t1"

SeqCallReport == ReportCall(SeqThread, MaxSeqReports)

NextSeq ==
    \/ SeqCallReport
    \/ Lock(SeqThread)
    \/ ReportAppend(SeqThread)
    \/ ErroredAssign(SeqThread)
    \/ BehavedAssign(SeqThread)
    \/ Unlock(SeqThread)
    \/ CallGet(SeqThread)
    \/ RLock(SeqThread)
    \/ Read(SeqThread)
    \/ RUnlock(SeqThread)
    \/ Release(SeqThread)
    \/ MutateOverwrite(SeqThread)
    \/ MutateAppend(SeqThread)
    \/ MutateTruncate(SeqThread)

SpecSeq == Init /\ [][NextSeq]_vars

\* Goroutines sharing one SwitchPeerBehaviour, and the Switch's peers
\* coming and going.
NextLive ==
    \/ \E t \in Threads :
          \/ SwitchCall(t)
          \/ SwitchGet(t)
          \/ SwitchErroredAct(t)
          \/ SwitchBehavedAct(t)
          \/ SwitchDone(t)
    \/ \E p \in Peers :
          \/ AddPeer(p)
          \/ RemovePeer(p)

SpecLive == Init /\ [][NextLive]_vars

\* Goroutines sharing one StoredPeerBehaviour, each issuing finitely many
\* calls.  The scheduler lets every goroutine run: a step of a call that
\* stays possible is taken.  Issuing a call, and letting go of a returned
\* slice, are up to the caller.
CallStep(t) ==
    \/ Lock(t)
    \/ ReportAppend(t)
    \/ ErroredAssign(t)
    \/ BehavedAssign(t)
    \/ Unlock(t)
    \/ RLock(t)
    \/ Read(t)
    \/ RUnlock(t)

NextFin ==
    \E t \in Threads :
        \/ FinCallReport(t)
        \/ FinCallGet(t)
        \/ Release(t)
        \/ Lock(t)
        \/ ReportAppend(t)
        \/ ErroredAssign(t)
        \/ BehavedAssign(t)
        \/ Unlock(t)
        \/ RLock(t)
        \/ Read(t)
        \/ RUnlock(t)

SpecFin == Init /\ [][NextFin]_vars /\ \A t \in Threads : WF_vars(CallStep(t))

\* ------------------------------------------- properties
\* The sequence a getter returns for peer p from a store (h, e, g), and in
\* the current state.
GotIn(h, e, g, op, p) ==
    LET x == GetResult(h, MapOf(op, e, g), p, <<"goroutine", "reader">>)
    IN  Elems(x.h, x.s)

Got(op, p) == GotIn(heap, eb, gb, op, p)

ReportInFlight(t) == pc[t] \in {"Lock", "Append", "Assign", "Unlock"}
GetInFlight(t) == pc[t] \in {"RLock", "Read", "RUnlock"}

\* C1: calls issued one after the other against a fresh store: whenever no
\* report is in progress, the getters return for every peer exactly the error
\* reasons, and exactly the good reasons, reported for it, in the order the
\* calls were issued; a getter call that has read returns that sequence; no
\* good reason is in an error log and no error reason in a good log.
C1_LogsAreReportsInOrder ==
    /\ ~ReportInFlight(SeqThread) =>
          \A p \in Peers :
             /\ Got("GetErrorBehaviours", p) = calls[<<"Errored", p>>]
             /\ Got("GetGoodBehaviours", p) = calls[<<"Behaved", p>>]
             /\ \A i \in 1..Len(Got("GetErrorBehaviours", p)) :
                   Got("GetErrorBehaviours", p)[i] \in ErrorReasons
             /\ \A i \in 1..Len(Got("GetGoodBehaviours", p)) :
                   Got("GetGoodBehaviours", p)[i] \in GoodReasons
    /\ pc[SeqThread] = "RUnlock" =>
          Elems(heap, tmp[SeqThread]) =
              calls[<<ReportOf(arg[SeqThread].op), arg[SeqThread].peer>>]

\* C1 witness: after Errored(p1, MessageOutofOrder), Behaved(p1, Vote) and
\* Errored(p1, BadMessage), GetErrorBehaviours(p1) is about to return
\* [MessageOutofOrder, BadMessage]; the good log of p1 is [Vote] and p2 has
\* no errors.
C1_Witness ==
    /\ pc[SeqThread] = "RUnlock"
    /\ arg[SeqThread].op = "GetErrorBehaviours"
    /\ arg[SeqThread].peer = "p1"
    /\ Elems(heap, tmp[SeqThread]) =
          <<ErrorPeerBehaviourMessageOutofOrder, ErrorPeerBehaviourBadMessage>>
    /\ Got("GetGoodBehaviours", "p1") = <<GoodPeerBehaviourVote>>
    /\ Got("GetErrorBehaviours", "p2") = <<>>
    /\ NumCalls = 3

\* Report calls on (op, p) that have been invoked and have not stored yet.
NotYetStored(op, p) ==
    {t \in Threads : /\ pc[t] \in {"Lock", "Append", "Assign"}
                     /\ arg[t].op = op
                     /\ arg[t].peer = p}

\* C2: no lost updates: for any interleaving of Errored and Behaved calls,
\* each peer's error (good) log is as long as the number of Errored (Behaved)
\* calls made for it, less the calls that have not stored yet; so once all
\* calls have returned the lengths equal the numbers of calls.
C2_NoLostUpdates ==
    \A p \in Peers :
       /\ Len(Log(heap, eb, p)) + Cardinality(NotYetStored("Errored", p))
             = Len(calls[<<"Errored", p>>])
       /\ Len(Log(heap, gb, p)) + Cardinality(NotYetStored("Behaved", p))
             = Len(calls[<<"Behaved", p>>])

\* C2 witness: two Errored calls for p1 overlapped (the one invoked first
\* returned last), both have returned, and the log holds two entries.
C2_Witness ==
    /\ \A t \in Threads : pc[t] = "idle"
    /\ calls[<<"Errored", "p1">>] =
          <<ErrorPeerBehaviourBadMessage, ErrorPeerBehaviourMessageOutofOrder>>
    /\ returned[<<"Errored", "p1">>] =
          <<ErrorPeerBehaviourMessageOutofOrder, ErrorPeerBehaviourBadMessage>>
    /\ Len(Log(heap, eb, "p1")) = 2

\* A step of goroutine t's call on the SwitchPeerBehaviour: its lookup, or
\* its check and manager call, at the end of which it returns.
SwitchLookupStep(t) == pc[t] = "Get" /\ pc'[t] = "Act"
SwitchFinalStep(t) == pc[t] = "Act" /\ pc'[t] = "SwReturned"

\* C3: a call on the SwitchPeerBehaviour whose lookup finds nothing returns
\* the peer-not-found error, and neither of its steps issues a
\* StopPeerForError or MarkPeerAsGood call or changes the peer set.
C3_MissingPeer ==
    [][\A t \in Threads :
         /\ (SwitchLookupStep(t) /\ peer'[t] = NilPeer) =>
               (swCalls' = swCalls /\ swPeers' = swPeers)
         /\ (SwitchFinalStep(t) /\ peer[t] = NilPeer) =>
               /\ err'[t] = ErrPeerNotFound
               /\ swCalls' = swCalls
               /\ swPeers' = swPeers]_vars

\* C3 witness: an Errored and a Behaved call have both returned without
\* having found their peer, and the Switch has received no call.
C3_Witness ==
    /\ pc["t1"] = "SwReturned" /\ arg["t1"].op = "SwitchErrored"
    /\ peer["t1"] = NilPeer /\ err["t1"] = ErrPeerNotFound
    /\ pc["t2"] = "SwReturned" /\ arg["t2"].op = "SwitchBehaved"
    /\ peer["t2"] = NilPeer /\ err["t2"] = ErrPeerNotFound
    /\ swCalls = <<>>

\* C4: an Errored call on the SwitchPeerBehaviour whose lookup finds the peer
\* issues, in its last step, exactly one call, StopPeerForError for that peer
\* with the reported reason as the cause, and returns nil in that same step,
\* whether or not the peer has left the peer set; its lookup issues no call.
C4_ErroredKnownPeer ==
    [][\A t \in Threads :
         arg[t].op = "SwitchErrored" =>
            /\ (SwitchLookupStep(t) /\ peer'[t] # NilPeer) =>
                  (swCalls' = swCalls /\ peer'[t] = arg[t].peer)
            /\ (SwitchFinalStep(t) /\ peer[t] # NilPeer) =>
                  /\ swCalls' = Append(swCalls, [fn |-> "StopPeerForError",
                                                  peer |-> arg[t].peer,
                                                  reason |-> arg[t].reason])
                  /\ err'[t] = NoError
                  /\ pc'[t] = "SwReturned"]_vars

\* C4 witness: Errored(p1, BadMessage) has returned nil, the one call the
\* Switch received is the stop of p1 for BadMessage, and p1 is still in the
\* peer set.
C4_Witness ==
    \E t \in Threads :
       /\ pc[t] = "SwReturned" /\ arg[t].op = "SwitchErrored"
       /\ arg[t].peer = "p1" /\ arg[t].reason = ErrorPeerBehaviourBadMessage
       /\ err[t] = NoError
       /\ swCalls = <<[fn |-> "StopPeerForError", peer |-> "p1",
                        reason |-> ErrorPeerBehaviourBadMessage]>>
       /\ "p1" \in swPeers

\* C5: a Behaved call on the SwitchPeerBehaviour whose lookup finds the peer
\* issues, in its last step, exactly one call, MarkPeerAsGood for that peer,
\* and returns nil; its lookup issues no call.
C5_BehavedKnownPeer ==
    [][\A t \in Threads :
         arg[t].op = "SwitchBehaved" =>
            /\ (SwitchLookupStep(t) /\ peer'[t] # NilPeer) =>
                  (swCalls' = swCalls /\ peer'[t] = arg[t].peer)
            /\ (SwitchFinalStep(t) /\ peer[t] # NilPeer) =>
                  /\ Len(swCalls') = Len(swCalls) + 1
                  /\ SubSeq(swCalls', 1, Len(swCalls)) = swCalls
                  /\ swCalls'[Len(swCalls')].fn = "MarkPeerAsGood"
                  /\ swCalls'[Len(swCalls')].peer = arg[t].peer
                  /\ err'[t] = NoError]_vars

\* C5 witness: Behaved(p1, Vote) has returned nil and the one call the Switch
\* received is the promotion of p1.
C5_Witness ==
    \E t \in Threads :
       /\ pc[t] = "SwReturned" /\ arg[t].op = "SwitchBehaved"
       /\ arg[t].peer = "p1" /\ arg[t].reason = GoodPeerBehaviourVote
       /\ err[t] = NoError
       /\ Len(swCalls) = 1
       /\ swCalls[1].fn = "MarkPeerAsGood" /\ swCalls[1].peer = "p1"

\* The backing arrays of the stored logs.
StoredArrays == {eb[p].arr : p \in DOMAIN eb} \cup {gb[p].arr : p \in DOMAIN gb}

\* The slice a getter call has produced: about to be returned, or returned.
HasResult(t) == pc[t] \in {"RUnlock", "Returned"}
Result(t) == IF pc[t] = "RUnlock" THEN tmp[t] ELSE ret[t]

\* A step in which the caller changes the slice it holds: the steps that
\* leave a goroutine holding a result are MutateOverwrite, MutateAppend and
\* MutateTruncate.
MutateStep(t) == pc[t] = "Returned" /\ pc'[t] = "Returned" /\ <<heap, ret>>' # <<heap, ret>>

\* C6: copy semantics: the slice a getter produces has no backing array in
\* common with a stored log, and when the caller overwrites an element of,
\* appends to or truncates a slice it was given, both maps and every stored
\* log stay as they were, so that the getters return for every peer what they
\* returned before the change.
C6_CopySemantics ==
    /\ [](\A t \in Threads :
            HasResult(t) => Result(t).arr \notin StoredArrays)
    /\ [][MutateStep(SeqThread) =>
            /\ eb' = eb
            /\ gb' = gb
            /\ \A p \in Peers :
                  /\ Log(heap', eb', p) = Log(heap, eb, p)
                  /\ Log(heap', gb', p) = Log(heap, gb, p)
                  /\ GotIn(heap', eb', gb', "GetErrorBehaviours", p)
                        = Got("GetErrorBehaviours", p)
                  /\ GotIn(heap', eb', gb', "GetGoodBehaviours", p)
                        = Got("GetGoodBehaviours", p)]_vars

\* C6 witness: the caller holds a slice GetErrorBehaviours gave it and has
\* changed it: it no longer reads as the stored log, which still holds the
\* two reasons reported.
C6_Witness ==
    /\ pc[SeqThread] = "Returned"
    /\ arg[SeqThread].op = "GetErrorBehaviours"
    /\ Len(Log(heap, eb, arg[SeqThread].peer)) = 2
    /\ Len(Elems(heap, ret[SeqThread])) = 2
    /\ Elems(heap, ret[SeqThread]) # Log(heap, eb, arg[SeqThread].peer)
    /\ Got("GetErrorBehaviours", arg[SeqThread].peer) =
          calls[<<"Errored", arg[SeqThread].peer>>]

\* C7: the sequence a getter produces for peer p is one of the values the
\* whole log of p had between the getter's invocation and now: never a
\* partly appended log, never a sequence the log did not hold.
C7_AtomicForReaders ==
    \A t \in Threads :
       HasResult(t) => Elems(heap, Result(t)) \in window[t]

\* C7 witness: a getter has returned a log that a report changed while the
\* getter call was in progress.
C7_Witness ==
    \E t \in Threads :
       /\ pc[t] = "Returned"
       /\ Cardinality(window[t]) = 2
       /\ Len(Elems(heap, ret[t])) = 2

IsPrefix(a, b) == Len(a) <= Len(b) /\ SubSeq(b, 1, Len(a)) = a

\* C8: a report is applied before its call returns: the reports on (kind, p)
\* that had returned when a getter of that kind for p was invoked are all in
\* the sequence the getter produces, as its first entries, in their order.
C8_ReturnedReportsAreRead ==
    \A t \in Threads :
       HasResult(t) =>
          IsPrefix(SubSeq(returned[<<ReportOf(arg[t].op), arg[t].peer>>], 1, snap[t]),
                   Elems(heap, Result(t)))

\* C8 witness: GetGoodBehaviours(p2) was invoked after two Behaved(p2, ..)
\* calls had returned, and has returned both.
C8_Witness ==
    \E t \in Threads :
       /\ pc[t] = "Returned"
       /\ arg[t].op = "GetGoodBehaviours" /\ arg[t].peer = "p2"
       /\ snap[t] = 2
       /\ Elems(heap, ret[t]) = returned[<<"Behaved", "p2">>]

\* Reports on (op, p) that have stored.
NumStored(op, p) == Len(calls[<<op, p>>]) - Cardinality(NotYetStored(op, p))

\* C9: a getter that finds no entry for its peer produces a slice that is
\* not nil and has length 0; no step of a getter call changes the key set of
\* either map; a key is in a map exactly when a report of that kind for that
\* peer has stored.
C9_EmptyForUnknownPeer ==
    /\ [](/\ \A t \in Threads :
              (pc[t] = "RUnlock" /\ arg[t].peer \notin DOMAIN MapOf(arg[t].op, eb, gb)) =>
                 (tmp[t] # NilSlice /\ tmp[t].len = 0 /\ Elems(heap, tmp[t]) = <<>>)
           /\ DOMAIN eb = {p \in Peers : NumStored("Errored", p) > 0}
           /\ DOMAIN gb = {p \in Peers : NumStored("Behaved", p) > 0})
    /\ [][\A t \in Threads :
            (GetInFlight(t) /\ pc'[t] # pc[t]) =>
               (DOMAIN eb' = DOMAIN eb /\ DOMAIN gb' = DOMAIN gb)]_vars

\* C9 witness: GetErrorBehaviours(p1) has read the empty slice; p1 has good
\* reports and p2 has error reports, but p1 has no key in the error map.
C9_Witness ==
    \E t \in Threads :
       /\ pc[t] = "RUnlock"
       /\ arg[t].op = "GetErrorBehaviours" /\ arg[t].peer = "p1"
       /\ tmp[t] = EmptySlice
       /\ DOMAIN eb = {"p2"}
       /\ DOMAIN gb = {"p1"}

Writers == {t \in Threads : InWrite(t)}
Readers == {t \in Threads : InRead(t)}

\* C11: lock discipline: in every reachable state no goroutine is inside a
\* critical section, or exactly one report call is and no getter, or getters
\* are and no report call; the mutex's holder and reader count say who is
\* inside.
C11_LockDiscipline ==
    /\ \/ Writers = {} /\ Readers = {}
       \/ Cardinality(Writers) = 1 /\ Readers = {}
       \/ Writers = {} /\ Cardinality(Readers) >= 1
    /\ \A t \in Threads : InWrite(t) <=> mtx.w = t
    /\ mtx.r = Cardinality(Readers)

\* C11 witness: two getters are inside their critical sections at once, one
\* about to read and one that has read.
C11_Witness ==
    /\ pc["t1"] = "Read"
    /\ pc["t2"] = "RUnlock"
    /\ mtx = [w |-> NoThread, r |-> 2]

\* A call on the StoredPeerBehaviour that was invoked and has not returned.
Pending(t) == ReportInFlight(t) \/ GetInFlight(t)

\* C12: no deadlock: goroutines issue finitely many calls on one shared
\* StoredPeerBehaviour and the scheduler lets every goroutine run.  Whenever
\* a call is pending, some pending call can take a step; the lock is free
\* whenever no call is pending; and from some point on no call is pending,
\* so that every call that was invoked has returned.
C12_NoDeadlock ==
    /\ []((\E t \in Threads : Pending(t)) => (\E t \in Threads : ENABLED CallStep(t)))
    /\ []((\A t \in Threads : ~Pending(t)) => mtx = [w |-> NoThread, r |-> 0])
    /\ <>[](\A t \in Threads : ~Pending(t))

\* C12 witness: two reports and a getter call were issued, a report went
\* through its critical section while the getter call was in progress (the
\* log the getter is about took two values), every call has returned and the
\* lock is free.
C12_Witness ==
    /\ \A t \in Threads : ~Pending(t)
    /\ \E t \in Threads : pc[t] = "Returned" /\ Cardinality(window[t]) = 2
    /\ ngets >= 1
    /\ Len(returned[<<"Behaved", "p1">>]) = 2
    /\ mtx = [w |-> NoThread, r |-> 0]

\* C13: monotonic growth: a fresh StoredPeerBehaviour has both maps empty,
\* and across every step no key leaves a map and every peer's error log and
\* good log has its earlier value as a prefix: no log is shortened and no
\* recorded entry is rewritten.
C13_MonotonicGrowth ==
    /\ (eb = NoEntries /\ gb = NoEntries)
    /\ [][/\ DOMAIN eb \subseteq DOMAIN eb'
          /\ DOMAIN gb \subseteq DOMAIN gb'
          /\ \A p \in Peers :
                /\ IsPrefix(Log(heap, eb, p), Log(heap', eb', p))
                /\ IsPrefix(Log(heap, gb, p), Log(heap', gb', p))]_vars

\* C13 witness: the error log of p2 has grown to two entries, by a literal
\* and then an append, while the good map holds nothing.
C13_Witness ==
    /\ Log(heap, eb, "p2") =
          <<ErrorPeerBehaviourMessageOutofOrder, ErrorPeerBehaviourBadMessage>>
    /\ DOMAIN eb = {"p2"}
    /\ gb = NoEntries

\* C14: the good-behaviour reason is advisory: what a Behaved call on the
\* SwitchPeerBehaviour looks up, returns and asks of the Switch is a function
\* of the peer and the Switch's state in which the reason does not occur, so
\* two calls that differ only in the reason return the same value and make
\* the same call on the Switch, or none; and two Behaved calls for one peer
\* whose lookups found the same have returned the same value.
C14_GoodReasonAdvisory ==
    /\ [][\A t \in Threads :
            arg[t].op = "SwitchBehaved" =>
               /\ SwitchLookupStep(t) =>
                     /\ peer'[t] = (IF arg[t].peer \in swPeers THEN arg[t].peer ELSE NilPeer)
                     /\ swCalls' = swCalls
               /\ SwitchFinalStep(t) =>
                     /\ err'[t] = (IF peer[t] = NilPeer THEN ErrPeerNotFound ELSE NoError)
                     /\ swCalls' = (IF peer[t] = NilPeer THEN swCalls
                                    ELSE Append(swCalls, [fn |-> "MarkPeerAsGood",
                                                          peer |-> peer[t],
                                                          reason |-> 0]))
                     /\ swPeers' = swPeers]_vars
    /\ [](\A t, u \in Threads :
            (/\ pc[t] = "SwReturned" /\ pc[u] = "SwReturned"
             /\ arg[t].op = "SwitchBehaved" /\ arg[u].op = "SwitchBehaved"
             /\ arg[t].peer = arg[u].peer
             /\ peer[t] = peer[u]) => err[t] = err[u])

\* C14 witness: Behaved(p1, Vote) and Behaved(p1, BlockPart) have both
\* returned nil, and the Switch received the same promotion of p1 twice.
C14_Witness ==
    /\ pc["t1"] = "SwReturned" /\ pc["t2"] = "SwReturned"
    /\ arg["t1"] = [op |-> "SwitchBehaved", peer |-> "p1", reason |-> GoodPeerBehaviourVote]
    /\ arg["t2"] = [op |-> "SwitchBehaved", peer |-> "p1", reason |-> GoodPeerBehaviourBlockPart]
    /\ err["t1"] = NoError /\ err["t2"] = NoError
    /\ Len(swCalls) = 2
    /\ swCalls[1] = swCalls[2]
    /\ swCalls[1].fn = "MarkPeerAsGood" /\ swCalls[1].peer = "p1"

\* The Switch method a call on the SwitchPeerBehaviour ends in.
ManagerFn(op) == IF op = "SwitchErrored" THEN "StopPeerForError" ELSE "MarkPeerAsGood"

\* Goroutine t's step appends exactly one call for the Switch, of its
\* operation's kind and for its peer.
IssuesOneCall(t) ==
    /\ Len(swCalls') = Len(swCalls) + 1
    /\ SubSeq(swCalls', 1, Len(swCalls)) = swCalls
    /\ swCalls'[Len(swCalls')].fn = ManagerFn(arg[t].op)
    /\ swCalls'[Len(swCalls')].peer = arg[t].peer

\* C15: lookup and action are not atomic: a call whose lookup found the peer
\* ends, also when the peer has left the peer set since, with the one call
\* to the Switch and nil; every call ends either with the peer-not-found
\* error and no call to the Switch or with nil and exactly one; and no step
\* of a call changes the peer set, so a peer that left is not brought back.
C15_LookupThenAct ==
    [][\A t \in Threads :
         /\ (SwitchFinalStep(t) /\ peer[t] # NilPeer /\ arg[t].peer \notin swPeers) =>
               (err'[t] = NoError /\ IssuesOneCall(t))
         /\ SwitchFinalStep(t) =>
               \/ err'[t] = ErrPeerNotFound /\ swCalls' = swCalls
               \/ err'[t] = NoError /\ IssuesOneCall(t)
         /\ pc'[t] # pc[t] => swPeers' = swPeers]_vars

\* C15 witness: Errored(p1, ..) found p1, p1 left the peer set, and the call
\* then asked the Switch to stop p1 and returned nil; p1 is not in the peer
\* set.  (History: it was there at the lookup and not at the return.)
C15_Witness ==
    \E t \in Threads :
       /\ pc[t] = "SwReturned" /\ arg[t].op = "SwitchErrored" /\ arg[t].peer = "p1"
       /\ err[t] = NoError
       /\ lookedUp[t] = [atGet |-> TRUE, atReturn |-> FALSE]
       /\ swReturns[[op |-> "SwitchErrored", err |-> NoError, found |-> TRUE]] = 1
       /\ Len(swCalls) = 1
       /\ swCalls[1].fn = "StopPeerForError" /\ swCalls[1].peer = "p1"
       /\ "p1" \notin swPeers

\* Map m and its logs are, from this state to the next, as they were for
\* every peer but those in `but`.
SameLogs(h1, m1, h2, m2, but) ==
    \A q \in Peers \ but :
       /\ (q \in DOMAIN m2) = (q \in DOMAIN m1)
       /\ q \in DOMAIN m1 => m2[q] = m1[q]
       /\ Log(h2, m2, q) = Log(h1, m1, q)

\* C16: frame: a step of Errored(p, r) leaves the good map and every good
\* log, and the error log of every peer but p, as they were; a step of
\* Behaved(p, r) leaves the error map and every error log, and the good log
\* of every peer but p, as they were; a step of a getter leaves both maps and
\* every log as they were.
C16_Frame ==
    [][\A t \in Threads :
         pc'[t] # pc[t] =>
            LET c == IF pc[t] = "idle" THEN arg'[t] ELSE arg[t]
            IN  /\ c.op = "Errored" =>
                      /\ gb' = gb
                      /\ SameLogs(heap, gb, heap', gb', {})
                      /\ SameLogs(heap, eb, heap', eb', {c.peer})
                /\ c.op = "Behaved" =>
                      /\ eb' = eb
                      /\ SameLogs(heap, eb, heap', eb', {})
                      /\ SameLogs(heap, gb, heap', gb', {c.peer})
                /\ c.op \in GetOps =>
                      /\ eb' = eb /\ gb' = gb
                      /\ SameLogs(heap, eb, heap', eb', {})
                      /\ SameLogs(heap, gb, heap', gb', {})]_vars

\* C16 witness: Errored(p1, BadMessage) has stored and is about to return:
\* the error log of p1 is its reason, and the good log of p2 that was there
\* before is as it was.
C16_Witness ==
    \E t \in Threads :
       /\ pc[t] = "Unlock"
       /\ arg[t] = [op |-> "Errored", peer |-> "p1", reason |-> ErrorPeerBehaviourBadMessage]
       /\ Log(heap, eb, "p1") = <<ErrorPeerBehaviourBadMessage>>
       /\ DOMAIN eb = {"p1"}
       /\ DOMAIN gb = {"p2"}
       /\ Log(heap, gb, "p2") = returned[<<"Behaved", "p2">>]
       /\ Len(returned[<<"Behaved", "p2">>]) = 1

\* How many calls of one kind the Switch received, and how many for a peer.
NumIssued(fn) == Cardinality({i \in 1..Len(swCalls) : swCalls[i].fn = fn})
NumIssuedFor(fn, p) ==
    Cardinality({i \in 1..Len(swCalls) : swCalls[i].fn = fn /\ swCalls[i].peer = p})

\* How many calls of operation op returned e.
RECURSIVE SumReturns(_, _)
SumReturns(f, S) ==
    IF S = {} THEN 0
    ELSE LET k == CHOOSE x \in S : TRUE IN f[k] + SumReturns(f, S \ {k})

NumReturned(op, e) == SumReturns(swReturns, {k \in ReturnKinds : k.op = op /\ k.err = e})

\* C17: the Switch's calls match the successful returns: whenever no call on
\* the SwitchPeerBehaviour is in progress, the Switch has received as many
\* StopPeerForError calls as Errored calls returned nil and as many
\* MarkPeerAsGood calls as Behaved calls returned nil, and every call made
\* has returned; and no call returned nil whose lookup did not find its peer
\* in the peer set.
C17_CallsMatchReturns ==
    /\ (\A t \in Threads : pc[t] \in {"idle", "SwReturned"}) =>
          /\ NumIssued("StopPeerForError") = NumReturned("SwitchErrored", NoError)
          /\ NumIssued("MarkPeerAsGood") = NumReturned("SwitchBehaved", NoError)
          /\ nlive = SumReturns(swReturns, ReturnKinds)
    /\ \A k \in ReturnKinds : (k.err = NoError /\ ~k.found) => swReturns[k] = 0

\* C17 witness: three calls have returned: two Errored calls for p1 returned
\* nil and the Switch received two stop calls for p1, one for each; a
\* Behaved call did not find its peer and the Switch received no promotion.
C17_Witness ==
    /\ \A t \in Threads : pc[t] \in {"idle", "SwReturned"}
    /\ NumReturned("SwitchErrored", NoError) = 2
    /\ NumIssuedFor("StopPeerForError", "p1") = 2
    /\ NumReturned("SwitchBehaved", ErrPeerNotFound) = 1
    /\ NumIssued("MarkPeerAsGood") = 0
    /\ Len(swCalls) = 2

====
